---------------------------- MODULE Spec2Model ----------------------------
(***************************************************************************)
(* A model of the medical assistant's submission pipeline                  *)
(* (gradio_app.py: safe_parse_json, process_inputs and the Submit wiring;  *)
(* brain_of_the_doctor.py: encode_image, analyze_image_with_query).        *)
(*                                                                         *)
(* A Python str is a sequence of one-character strings, so that find,      *)
(* rfind, slicing, strip, json.loads and json.dumps are computed character *)
(* by character.  A Python value (what json.loads returns) is a record     *)
(* with a kind field.                                                      *)
(***************************************************************************)
EXTENDS Integers, Sequences, FiniteSets, TLC

(***************************************************************************)
(* Text primitives                                                         *)
(***************************************************************************)
Chars(str) == [i \in 1..Len(str) |-> SubSeq(str, i, i)]

Repeat(c, n) == [i \in 1..n |-> c]

Min(a, b) == IF a <= b THEN a ELSE b

SetMin(S) == CHOOSE x \in S : \A y \in S : x <= y

SetMax(S) == CHOOSE x \in S : \A y \in S : y <= x

RECURSIVE FlattenRange(_, _, _)
FlattenRange(parts, lo, hi) ==
    IF lo > hi THEN <<>>
    ELSE IF lo = hi THEN parts[lo]
    ELSE LET mid == (lo + hi) \div 2
         IN  FlattenRange(parts, lo, mid) \o FlattenRange(parts, mid + 1, hi)

\* "".join(parts)
Flatten(parts) == FlattenRange(parts, 1, Len(parts))

\* sep.join(parts)
Join(sep, parts) ==
    Flatten([i \in 1..Len(parts) |-> IF i = 1 THEN parts[i] ELSE sep \o parts[i]])

\* str.find(c) and str.rfind(c) for a one-character c: 0-based index, -1 if absent
PyFind(s, c) ==
    LET hits == {i \in 1..Len(s) : s[i] = c}
    IN  IF hits = {} THEN -1 ELSE SetMin(hits) - 1

\* rfind mistaken for find
PyRFind_first(s, c) ==
    LET hits == {i \in 1..Len(s) : s[i] = c}
    IN  IF hits = {} THEN -1 ELSE SetMin(hits) - 1

PyRFind(s, c) ==
    LET hits == {i \in 1..Len(s) : s[i] = c}
    IN  IF hits = {} THEN -1 ELSE SetMax(hits) - 1

\* s[a:b] for 0 <= a, 0 <= b
PySlice(s, a, b) == SubSeq(s, a + 1, Min(b, Len(s)))

\* The characters str.strip() removes, among those a text of the model holds.
StripWs == {" ", "\t", "\n", "\r", "\f"}

PyStrip(s) ==
    LET n     == Len(s)
        first == CHOOSE i \in 1..(n + 1) :
                    /\ (i = n + 1 \/ s[i] \notin StripWs)
                    /\ \A k \in 1..(i - 1) : s[k] \in StripWs
        last  == CHOOSE j \in 0..n :
                    /\ (j = 0 \/ s[j] \notin StripWs)
                    /\ \A k \in (j + 1)..n : s[k] \in StripWs
    IN  SubSeq(s, first, last)

(***************************************************************************)
(* Python values                                                           *)
(***************************************************************************)
PyStrV(s) == [kind |-> "str", s |-> s]

PyNone == [kind |-> "None"]

PyBool(b) == [kind |-> "bool", b |-> b]

\* A number keeps its literal: no claim computes with one.
PyNum(lit) == [kind |-> "num", lit |-> lit]

PyList(items) == [kind |-> "list", items |-> items]

\* items: the (key, value) pairs in insertion order, keys distinct
PyDict(items) == [kind |-> "dict", items |-> items]

IsStr(v) == v.kind = "str"

IsDict(v) == v.kind = "dict"

\* d[k] = v on a dict's items: a key already present keeps its place
DictSet(items, k, v) ==
    IF \E p \in 1..Len(items) : items[p].k = k
    THEN [p \in 1..Len(items) |-> IF items[p].k = k THEN [k |-> k, v |-> v] ELSE items[p]]
    ELSE Append(items, [k |-> k, v |-> v])

DictHas(d, k) == \E p \in 1..Len(d.items) : d.items[p].k = k

DictLookup(d, k) == d.items[CHOOSE p \in 1..Len(d.items) : d.items[p].k = k].v

(***************************************************************************)
(* json.loads                                                              *)
(***************************************************************************)
JsonWs == {" ", "\t", "\n", "\r"}

Digits == {"0", "1", "2", "3", "4", "5", "6", "7", "8", "9"}

HexDigits == Digits \cup {"a", "b", "c", "d", "e", "f", "A", "B", "C", "D", "E", "F"}

\* the characters below 0x20 a text of the model can hold
ControlChars == {"\t", "\n", "\r", "\f"}

\* the first index >= i that holds no JSON whitespace (Len(s) + 1 at the end)
SkipWs(s, i) ==
    CHOOSE j \in i..(Len(s) + 1) :
        /\ (j = Len(s) + 1 \/ s[j] \notin JsonWs)
        /\ \A k \in i..(j - 1) : s[k] \in JsonWs

\* the first index >= i that holds no digit
DigitsEnd(s, i) ==
    CHOOSE j \in i..(Len(s) + 1) :
        /\ (j = Len(s) + 1 \/ s[j] \notin Digits)
        /\ \A k \in i..(j - 1) : s[k] \in Digits

\* the number of consecutive backslashes that end right before index j, none below lo
BackslashRun(s, lo, j) ==
    LET start == CHOOSE p \in lo..j :
                    /\ \A k \in p..(j - 1) : s[k] = "\\"
                    /\ (p = lo \/ s[p - 1] # "\\")
    IN  j - start

HexVal(h) ==
    CASE h \in Digits -> CHOOSE d \in 0..9 : SubSeq("0123456789", d + 1, d + 1) = h
      [] h \in {"a", "A"} -> 10
      [] h \in {"b", "B"} -> 11
      [] h \in {"c", "C"} -> 12
      [] h \in {"d", "D"} -> 13
      [] h \in {"e", "E"} -> 14
      [] h \in {"f", "F"} -> 15

HexChar(d) == SubSeq("0123456789abcdef", d + 1, d + 1)

\* ASCII 32..95 and 97..126 (a string of the module cannot hold the grave accent)
AsciiLow == " !\"#$%&'()*+,-./0123456789:;<=>?@ABCDEFGHIJKLMNOPQRSTUVWXYZ[\\]^_"

AsciiHigh == "abcdefghijklmnopqrstuvwxyz{|}~"

\* The character with code point `code` (below 0x10000).  A character the
\* module cannot write is the string of its \uXXXX escape, one element.
CodePoint(code) ==
    IF code >= 32 /\ code <= 95 THEN SubSeq(AsciiLow, code - 31, code - 31)
    ELSE IF code >= 97 /\ code <= 126 THEN SubSeq(AsciiHigh, code - 96, code - 96)
    ELSE IF code = 9 THEN "\t"
    ELSE IF code = 10 THEN "\n"
    ELSE IF code = 12 THEN "\f"
    ELSE IF code = 13 THEN "\r"
    ELSE "\\u" \o HexChar(code \div 4096) \o HexChar((code \div 256) % 16)
               \o HexChar((code \div 16) % 16) \o HexChar(code % 16)

\* the character a one-letter escape stands for
Unescape(c) ==
    CASE c = "n" -> "\n"
      [] c = "t" -> "\t"
      [] c = "r" -> "\r"
      [] c = "f" -> "\f"
      [] c = "b" -> CodePoint(8)
      [] OTHER -> c

SimpleEscapes == {"\"", "\\", "/", "b", "f", "n", "r", "t"}

\* py_scanstring: s[i] is the opening quote.  [ok, val, pos]
ScanString(s, i) ==
    LET closes == {j \in (i + 1)..Len(s) :
                      s[j] = "\"" /\ BackslashRun(s, i + 1, j) % 2 = 0}
    IN  IF closes = {} THEN [ok |-> FALSE, val |-> <<>>, pos |-> 0]
        ELSE
        LET close == SetMin(closes)
            c == SubSeq(s, i + 1, close - 1)
            n == Len(c)
            IsEsc(k) == k >= 1 /\ c[k] = "\\" /\ BackslashRun(c, 1, k) % 2 = 0
            IsHexOf(k) == \E d \in 2..5 : k - d >= 1 /\ IsEsc(k - d) /\ c[k - d + 1] = "u"
            Valid == \A k \in 1..n :
                        /\ c[k] \notin ControlChars
                        /\ IsEsc(k) =>
                              \/ c[k + 1] \in SimpleEscapes
                              \/ /\ c[k + 1] = "u"
                                 /\ k + 5 <= n
                                 /\ \A h \in (k + 2)..(k + 5) : c[h] \in HexDigits
            Out(k) == IF IsEsc(k)
                      THEN IF c[k + 1] = "u"
                           THEN <<CodePoint(4096 * HexVal(c[k + 2]) + 256 * HexVal(c[k + 3])
                                            + 16 * HexVal(c[k + 4]) + HexVal(c[k + 5]))>>
                           ELSE <<Unescape(c[k + 1])>>
                      ELSE IF IsEsc(k - 1) \/ IsHexOf(k) THEN <<>>
                      ELSE <<c[k]>>
        IN  IF Valid
            THEN [ok |-> TRUE, val |-> Flatten([k \in 1..n |-> Out(k)]), pos |-> close + 1]
            ELSE [ok |-> FALSE, val |-> <<>>, pos |-> 0]

\* NUMBER_RE.match(s, i): the index after the number, 0 when none starts at i
ScanNumber(s, i) ==
    LET n == Len(s)
        a == IF i <= n /\ s[i] = "-" THEN i + 1 ELSE i
        intEnd  == IF a > n \/ s[a] \notin Digits THEN 0
                   ELSE IF s[a] = "0" THEN a + 1 ELSE DigitsEnd(s, a)
        fracEnd == IF intEnd # 0 /\ intEnd <= n /\ s[intEnd] = "."
                      /\ DigitsEnd(s, intEnd + 1) > intEnd + 1
                   THEN DigitsEnd(s, intEnd + 1) ELSE intEnd
        sgn     == IF fracEnd # 0 /\ fracEnd + 1 <= n /\ s[fracEnd + 1] \in {"+", "-"}
                   THEN fracEnd + 2 ELSE fracEnd + 1
        expEnd  == IF fracEnd # 0 /\ fracEnd <= n /\ s[fracEnd] \in {"e", "E"}
                      /\ DigitsEnd(s, sgn) > sgn
                   THEN DigitsEnd(s, sgn) ELSE fracEnd
    IN  expEnd

StartsWith(s, i, word) ==
    /\ i + Len(word) - 1 <= Len(s)
    /\ SubSeq(s, i, i + Len(word) - 1) = word

Fail == [ok |-> FALSE, val |-> PyNone, pos |-> 0]

Found(v, pos) == [ok |-> TRUE, val |-> v, pos |-> pos]

\* a scanned string as a value
StringValue(r) == IF r.ok THEN Found(PyStrV(r.val), r.pos) ELSE Fail

\* the number that ends before index end (0: no number), else a constant
NumberOrConstant(s, i, end) ==
    IF end # 0 THEN Found(PyNum(SubSeq(s, i, end - 1)), end)
    ELSE IF StartsWith(s, i, Chars("NaN")) THEN Found(PyNum(Chars("nan")), i + 3)
    ELSE IF StartsWith(s, i, Chars("Infinity")) THEN Found(PyNum(Chars("inf")), i + 8)
    ELSE IF StartsWith(s, i, Chars("-Infinity")) THEN Found(PyNum(Chars("-inf")), i + 9)
    ELSE Fail

RECURSIVE ParseValue(_, _), ParseMembers(_, _, _), ParseItems(_, _, _)

\* JSONObject after a member: "}" ends the object, "," brings the next key
NextMember(s, items, next) ==
    IF next > Len(s) THEN Fail
    ELSE IF s[next] = "}" THEN Found(PyDict(items), next + 1)
    ELSE IF s[next] = "," THEN ParseMembers(s, SkipWs(s, next + 1), items)
    ELSE Fail

\* JSONObject: the member's value v is stored under key k
AfterMember(s, acc, k, v) ==
    IF v.ok THEN NextMember(s, DictSet(acc, k, v.val), SkipWs(s, v.pos)) ELSE Fail

\* JSONObject: a ":" must stand at index colon, the value follows it
AfterKey(s, acc, k, colon) ==
    IF colon > Len(s) \/ s[colon] # ":" THEN Fail
    ELSE AfterMember(s, acc, k, ParseValue(s, SkipWs(s, colon + 1)))

MemberFrom(s, acc, key) ==
    IF key.ok THEN AfterKey(s, acc, key.val, SkipWs(s, key.pos)) ELSE Fail

\* JSONObject's loop: i is the index where a key's opening quote must stand
ParseMembers(s, i, acc) ==
    IF i > Len(s) \/ s[i] # "\"" THEN Fail
    ELSE MemberFrom(s, acc, ScanString(s, i))

\* JSONArray after an item: "]" ends the array, "," brings the next item
NextItem(s, items, next) ==
    IF next > Len(s) THEN Fail
    ELSE IF s[next] = "]" THEN Found(PyList(items), next + 1)
    ELSE IF s[next] = "," THEN ParseItems(s, SkipWs(s, next + 1), items)
    ELSE Fail

AfterItem(s, acc, v) ==
    IF v.ok THEN NextItem(s, Append(acc, v.val), SkipWs(s, v.pos)) ELSE Fail

\* JSONArray's loop: i is the index of the next item's first character
ParseItems(s, i, acc) == AfterItem(s, acc, ParseValue(s, i))

\* JSONObject and JSONArray at their first character after the bracket
ObjectFrom(s, j) ==
    IF j <= Len(s) /\ s[j] = "}" THEN Found(PyDict(<<>>), j + 1) ELSE ParseMembers(s, j, <<>>)

ArrayFrom(s, j) ==
    IF j <= Len(s) /\ s[j] = "]" THEN Found(PyList(<<>>), j + 1) ELSE ParseItems(s, j, <<>>)

\* scan_once(s, i): i is the index of the value's first character
ParseValue(s, i) ==
    IF i > Len(s) THEN Fail
    ELSE IF s[i] = "\"" THEN StringValue(ScanString(s, i))
    ELSE IF s[i] = "{" THEN ObjectFrom(s, SkipWs(s, i + 1))
    ELSE IF s[i] = "[" THEN ArrayFrom(s, SkipWs(s, i + 1))
    ELSE IF StartsWith(s, i, Chars("null")) THEN Found(PyNone, i + 4)
    ELSE IF StartsWith(s, i, Chars("true")) THEN Found(PyBool(TRUE), i + 4)
    ELSE IF StartsWith(s, i, Chars("false")) THEN Found(PyBool(FALSE), i + 5)
    ELSE NumberOrConstant(s, i, ScanNumber(s, i))

\* the decoded value stands if only whitespace follows it
WholeText(s, r) ==
    IF r.ok /\ SkipWs(s, r.pos) = Len(s) + 1
    THEN [ok |-> TRUE, val |-> r.val]
    ELSE [ok |-> FALSE, val |-> PyNone]

\* json.loads(s): [ok |-> FALSE] stands for the exception it raises
JsonLoads(s) == WholeText(s, ParseValue(s, SkipWs(s, 1)))

(***************************************************************************)
(* json.dumps of a dict of strings                                         *)
(***************************************************************************)
\* encode_basestring_ascii: one character of a string
JsonEscapeChar(c) ==
    CASE c = "\"" -> <<"\\", "\"">>
      [] c = "\\" -> <<"\\", "\\">>
      [] c = "\n" -> <<"\\", "n">>
      [] c = "\r" -> <<"\\", "r">>
      [] c = "\t" -> <<"\\", "t">>
      [] c = "\f" -> <<"\\", "f">>
      [] Len(c) > 1 -> Chars(c)
      [] OTHER -> <<c>>

JsonDumpsStr(s) ==
    <<"\"">> \o Flatten([k \in 1..Len(s) |-> JsonEscapeChar(s[k])]) \o <<"\"">>

\* json.dumps({"analysis": a, "treatment": t})
JsonDumpsReply(a, t) ==
    Chars("{") \o JsonDumpsStr(Chars("analysis")) \o Chars(": ") \o JsonDumpsStr(a)
        \o Chars(", ") \o JsonDumpsStr(Chars("treatment")) \o Chars(": ") \o JsonDumpsStr(t)
        \o Chars("}")

(***************************************************************************)
(* str() and repr(), as an f-string applies them                           *)
(***************************************************************************)
\* repr of one character inside a string literal quoted with q
ReprChar(c, q) ==
    CASE c = "\\" -> <<"\\", "\\">>
      [] c = q    -> <<"\\", q>>
      [] c = "\n" -> <<"\\", "n">>
      [] c = "\r" -> <<"\\", "r">>
      [] c = "\t" -> <<"\\", "t">>
      [] c = "\f" -> Chars("\\x0c")
      [] OTHER    -> <<c>>

ReprStr(s) ==
    LET has(c) == \E k \in 1..Len(s) : s[k] = c
        q == IF has("'") /\ ~has("\"") THEN "\"" ELSE "'"
    IN  <<q>> \o Flatten([k \in 1..Len(s) |-> ReprChar(s[k], q)]) \o <<q>>

RECURSIVE PyRepr(_)
\* A number prints as its literal, which is what Python prints for the
\* integers without a sign; the model's texts hold no other number.
PyRepr(v) ==
    CASE v.kind = "str"  -> ReprStr(v.s)
      [] v.kind = "None" -> Chars("None")
      [] v.kind = "bool" -> IF v.b THEN Chars("True") ELSE Chars("False")
      [] v.kind = "num"  -> IF v.lit = Chars("-0") THEN Chars("0") ELSE v.lit
      [] v.kind = "list" ->
            Chars("[") \o Join(Chars(", "), [p \in 1..Len(v.items) |-> PyRepr(v.items[p])])
                \o Chars("]")
      [] v.kind = "dict" ->
            Chars("{") \o Join(Chars(", "), [p \in 1..Len(v.items) |->
                              ReprStr(v.items[p].k) \o Chars(": ") \o PyRepr(v.items[p].v)])
                \o Chars("}")

\* str(v), the conversion of f"{v}"
PyStr(v) == IF IsStr(v) THEN v.s ELSE PyRepr(v)

\* bool(v), as `if v:` and `v or ""` apply it
PyTruthy(v) ==
    CASE v.kind = "None" -> FALSE
      [] v.kind = "bool" -> v.b
      [] v.kind = "str"  -> Len(v.s) > 0
      [] v.kind = "list" -> Len(v.items) > 0
      [] v.kind = "dict" -> Len(v.items) > 0
      [] OTHER -> TRUE

(***************************************************************************)
(* brain_of_the_doctor.py                                                  *)
(***************************************************************************)
B64Alphabet == "ABCDEFGHIJKLMNOPQRSTUVWXYZabcdefghijklmnopqrstuvwxyz0123456789+/"

B64Char(v) == SubSeq(B64Alphabet, v + 1, v + 1)

\* the four characters for the three bytes (fewer at the end) from index k
B64Group(b, k) ==
    LET n  == Len(b)
        b1 == b[k]
        b2 == IF k + 1 <= n THEN b[k + 1] ELSE 0
        b3 == IF k + 2 <= n THEN b[k + 2] ELSE 0
    IN  << B64Char(b1 \div 4),
           B64Char((b1 % 4) * 16 + b2 \div 16),
           IF k + 1 <= n THEN B64Char((b2 % 16) * 4 + b3 \div 64) ELSE "=",
           IF k + 2 <= n THEN B64Char(b3 % 64) ELSE "=" >>

\* base64.b64encode(bytes).decode('utf-8')
encode_image(bytes) ==
    Flatten([g \in 1..((Len(bytes) + 2) \div 3) |-> B64Group(bytes, 3 * (g - 1) + 1)])

MODEL_NAME == "meta-llama/llama-4-scout-17b-16e-instruct"

NoRequest == [sent |-> FALSE, model |-> "", content |-> <<>>]

\* The request analyze_image_with_query hands to chat.completions.create:
\* one user message of two parts, the text and the image_url.
analyze_image_with_query(query, model, encoded_image) ==
    [sent    |-> TRUE,
     model   |-> model,
     content |-> << [type |-> "text", value |-> query],
                    [type  |-> "image_url",
                     value |-> Chars("data:image/jpeg;base64,") \o PyStr(encoded_image)] >>]

(***************************************************************************)
(* gradio_app.py: safe_parse_json                                          *)
(***************************************************************************)
SYSTEM_PROMPT_TEMPLATE == Chars(
    "\n" \o
    "You are a professional medical doctor speaking directly to a pat" \o
    "ient. \n" \o
    "You will be given an image to analyze and an optional transcript" \o
    "ion of the patient's spoken context.\n" \o
    "Produce a JSON object (and nothing else) with exactly two keys: " \o
    "\"analysis\" and \"treatment\".\n" \o
    "\n" \o
    "Rules:\n" \o
    "- \"analysis\": one or two concise sentences describing what appea" \o
    "rs medically wrong in the image. Use a natural doctor voice, sta" \o
    "rt with \"With what I see, ...\" and keep it short.\n" \o
    "- \"treatment\": 3 to 4 sentences giving practical remedies, next " \o
    "steps, and when to seek professional care. Use a natural doctor " \o
    "voice, clear steps, no bullet points or numbered lists.\n" \o
    "- Do not include any extra keys, commentary, or markdown. Respon" \o
    "d ONLY with valid JSON.\n" \o
    "\n" \o
    "If the image is missing or unclear, set \"analysis\" to \"Image not" \o
    " provided or unclear\" and give a general short treatment in \"tre" \o
    "atment\".\n")

FallbackAnalysis == Chars("Could not parse structured analysis from the model output.")

TreatmentCap == 2000

\* the cut taken before the strip: model_text[:2000].strip()
FallbackTreatment_cutFirst(model_text) == PyStrip(PySlice(model_text, 0, TreatmentCap))

\* model_text.strip()[:2000]
FallbackTreatment(model_text) == PySlice(PyStrip(model_text), 0, TreatmentCap)

\* model_text[start:end+1] for the first "{" and the last "}", tried when
\* start != -1 and end != -1 and end > start
BraceCandidate(model_text) ==
    LET start == PyFind(model_text, "{")
        end   == PyRFind(model_text, "}")
    IN  IF start # -1 /\ end # -1 /\ end > start
        THEN [tried |-> TRUE, text |-> PySlice(model_text, start, end + 1)]
        ELSE [tried |-> FALSE, text |-> <<>>]

\* the fallback dict of the last return statement
FallbackDict(model_text) ==
    PyDict(<< [k |-> Chars("analysis"), v |-> PyStrV(FallbackAnalysis)],
              [k |-> Chars("treatment"), v |-> PyStrV(FallbackTreatment(model_text))] >>)

\* the first of the three return statements that is reached: direct is the
\* whole text decoded, second is the candidate decoded
FirstReturn(model_text, direct, candidate, second) ==
    IF direct.ok THEN direct.val
    ELSE IF candidate.tried /\ second.ok THEN second.val
    ELSE FallbackDict(model_text)

safe_parse_json(model_text) ==
    FirstReturn(model_text, JsonLoads(model_text), BraceCandidate(model_text),
                JsonLoads(BraceCandidate(model_text).text))

\* the fallback's cut applied to every string read from the dict
DictGet_capped(d, key, default) ==
    IF DictHas(d, key)
    THEN IF IsStr(DictLookup(d, key))
         THEN PyStrV(PySlice(DictLookup(d, key).s, 0, TreatmentCap))
         ELSE DictLookup(d, key)
    ELSE default

\* one default for both keys
DictGet_oneDefault(d, key, default) ==
    IF DictHas(d, key) THEN DictLookup(d, key) ELSE PyStrV(Chars("Analysis not available."))

\* d.get(key, default) on a dict
DictGet(d, key, default) == IF DictHas(d, key) THEN DictLookup(d, key) ELSE default

(***************************************************************************)
(* gradio_app.py: process_inputs, one submission per session               *)
(***************************************************************************)
NumSessions == 2

Sessions == 1..NumSessions

TtsPath == PyStrV(Chars("final.mp3"))

NoFile == [exists |-> FALSE, speech |-> <<>>]

\* the audio text_to_speech_with_gtts writes for input_text
AudioOf(input_text) == [exists |-> TRUE, speech |-> input_text]

NotShown == [shown |-> FALSE, file |-> NoFile]

NoResult == <<>>

VARIABLES
    pc,               \* where each session's process_inputs stands
    audio_filepath,   \* the submission's inputs
    image_filepath,
    stt_text,
    request,          \* the request the multimodal API is answering
    model_raw_output,
    llm_error,        \* the exception of the image branch or the API call, if any
    parsed,
    analysis,
    treatment,
    tts_text,
    tts_path,
    tts_error,        \* the exception of the speech-synthesis block, if any
    result,           \* the four values returned to the UI
    audio_out,        \* what the audio output shows: the file found at the returned path
    final_mp3,        \* the file "final.mp3", shared by every session
    alone             \* no other submission has been in flight during this one

locals == <<audio_filepath, image_filepath, stt_text, request, model_raw_output,
            llm_error, parsed, analysis, treatment, tts_text, tts_path, tts_error,
            result, audio_out>>

vars == <<pc, locals, final_mp3, alone>>

InFlight == {"stt", "llm", "parse", "tts_exists", "tts_unlink", "tts_call", "return"}

\* submit_btn.click: process_inputs starts with fresh locals
Submit(s, dom) ==
    /\ pc[s] \in {"idle", "done", "raised"}
    /\ \E audio \in dom.audio, image \in dom.image :
          /\ audio_filepath' = [audio_filepath EXCEPT ![s] = audio]
          /\ image_filepath' = [image_filepath EXCEPT ![s] = image]
    /\ pc' = [pc EXCEPT ![s] = "stt"]
    /\ stt_text' = [stt_text EXCEPT ![s] = <<>>]
    /\ request' = [request EXCEPT ![s] = NoRequest]
    /\ model_raw_output' = [model_raw_output EXCEPT ![s] = <<>>]
    /\ llm_error' = [llm_error EXCEPT ![s] = PyNone]
    /\ parsed' = [parsed EXCEPT ![s] = PyNone]
    /\ analysis' = [analysis EXCEPT ![s] = PyNone]
    /\ treatment' = [treatment EXCEPT ![s] = PyNone]
    /\ tts_text' = [tts_text EXCEPT ![s] = <<>>]
    /\ tts_path' = [tts_path EXCEPT ![s] = PyNone]
    /\ tts_error' = [tts_error EXCEPT ![s] = PyNone]
    /\ result' = [result EXCEPT ![s] = NoResult]
    /\ audio_out' = [audio_out EXCEPT ![s] = NotShown]
    /\ alone' = [t \in Sessions |->
                    IF t = s THEN \A u \in Sessions \ {s} : pc[u] \notin InFlight
                    ELSE IF pc[t] \in InFlight THEN FALSE ELSE alone[t]]
    /\ UNCHANGED final_mp3

\* What transcribe_with_groq can do: return a value or raise.
SttOutcomes(audio, dom) ==
    IF PyTruthy(audio)
    THEN {[raised |-> FALSE, val |-> v] : v \in dom.transcripts}
            \cup {[raised |-> TRUE, val |-> PyStrV(e)] : e \in dom.errors}
    ELSE {[raised |-> FALSE, val |-> PyNone]}

\* step 1: the transcript, or the error in its place
SttText(audio, o) ==
    IF ~PyTruthy(audio) THEN <<>>
    ELSE IF o.raised THEN Chars("[STT error: ") \o o.val.s \o Chars("]")
    ELSE IF PyTruthy(o.val) THEN o.val.s ELSE <<>>

Transcribe(s, dom) ==
    /\ pc[s] = "stt"
    /\ \E o \in SttOutcomes(audio_filepath[s], dom) :
          stt_text' = [stt_text EXCEPT ![s] = SttText(audio_filepath[s], o)]
    /\ pc' = [pc EXCEPT ![s] = "llm"]
    /\ UNCHANGED <<audio_filepath, image_filepath, request, model_raw_output, llm_error,
                   parsed, analysis, treatment, tts_text, tts_path, tts_error, result,
                   audio_out, final_mp3, alone>>

NoImageNotice == Chars("No image provided.")

\* step 2: the prompt
AssembledPrompt(stt, image) ==
    SYSTEM_PROMPT_TEMPLATE \o Chars("\n\n")
        \o (IF Len(stt) > 0
            THEN Chars("Patient speech (transcription): ") \o stt \o Chars("\n\n")
            ELSE <<>>)
        \o (IF PyTruthy(image) THEN <<>> ELSE NoImageNotice)

\* What the image branch and the API call can do.  stage: where it ended
\* ("encode": open() raised; "client": Groq() raised, nothing was sent;
\* "api": the request was sent and the call raised; "reply": the reply came).
LlmOutcomes(image, dom) ==
    LET files == IF PyTruthy(image) THEN dom.files ELSE {<<>>}
    IN  (IF PyTruthy(image)
         THEN {[stage |-> "encode", bytes |-> <<>>, text |-> e] : e \in dom.llm_errors}
         ELSE {})
        \cup {[stage |-> st, bytes |-> b, text |-> e] :
                 st \in {"client", "api"}, b \in files, e \in dom.llm_errors}
        \cup {[stage |-> "reply", bytes |-> b, text |-> r] : b \in files, r \in dom.replies}

\* the JSON text written out by hand, the error put between the quotes as it is
FallbackReply_unescaped(image, e) ==
    Chars("{\"analysis\": \"")
        \o (IF PyTruthy(image) THEN Chars("Image processing error")
            ELSE Chars("Image not provided or unclear"))
        \o Chars("\", \"treatment\": \"")
        \o (IF PyTruthy(image) THEN Chars("Failed to analyze image due to error: ")
            ELSE Chars("No image was provided. If you can, please upload a clear photo. Error detail: "))
        \o e \o Chars("\"}")

\* the JSON text built in place of the reply when the branch raised
FallbackReply(image, e) ==
    IF PyTruthy(image)
    THEN JsonDumpsReply(Chars("Image processing error"),
                        Chars("Failed to analyze image due to error: ") \o e)
    ELSE JsonDumpsReply(Chars("Image not provided or unclear"),
                        Chars("No image was provided. If you can, please upload a clear photo. Error detail: ") \o e)

\* steps 3 and 4: encode the image if any, call the model, or build the fallback
Analyze(s, dom) ==
    /\ pc[s] = "llm"
    /\ \E o \in LlmOutcomes(image_filepath[s], dom) :
          LET query   == AssembledPrompt(stt_text[s], image_filepath[s])
              encoded == IF PyTruthy(image_filepath[s])
                         THEN PyStrV(encode_image(o.bytes)) ELSE PyNone
          IN  /\ request' = [request EXCEPT ![s] =
                    IF o.stage \in {"api", "reply"}
                    THEN analyze_image_with_query(query, MODEL_NAME, encoded)
                    ELSE NoRequest]
              /\ model_raw_output' = [model_raw_output EXCEPT ![s] =
                    IF o.stage = "reply" THEN o.text
                    ELSE FallbackReply(image_filepath[s], o.text)]
              /\ llm_error' = [llm_error EXCEPT ![s] =
                    IF o.stage = "reply" THEN PyNone ELSE PyStrV(o.text)]
    /\ pc' = [pc EXCEPT ![s] = "parse"]
    /\ UNCHANGED <<audio_filepath, image_filepath, stt_text, parsed, analysis, treatment,
                   tts_text, tts_path, tts_error, result, audio_out, final_mp3, alone>>

\* step 6 on the parsed value p: read the two fields, build the text to
\* speak.  p.get raises AttributeError when p is no dict: the exception
\* leaves process_inputs ("raised").
ReadFields(s, p) ==
    /\ parsed' = [parsed EXCEPT ![s] = p]
    /\ IF IsDict(p)
       THEN LET a == DictGet(p, Chars("analysis"), PyStrV(Chars("Analysis not available.")))
                t == DictGet(p, Chars("treatment"), PyStrV(Chars("Treatment not available.")))
            IN  /\ analysis' = [analysis EXCEPT ![s] = a]
                /\ treatment' = [treatment EXCEPT ![s] = t]
                /\ tts_text' = [tts_text EXCEPT ![s] = PyStr(a) \o Chars(" ") \o PyStr(t)]
                /\ tts_path' = [tts_path EXCEPT ![s] = TtsPath]
                /\ pc' = [pc EXCEPT ![s] = "tts_exists"]
       ELSE /\ pc' = [pc EXCEPT ![s] = "raised"]
            /\ UNCHANGED <<analysis, treatment, tts_text, tts_path>>

\* steps 5 and 6: the reply is parsed and the request is over
Normalize(s) ==
    /\ pc[s] = "parse"
    /\ ReadFields(s, safe_parse_json(model_raw_output[s]))
    /\ request' = [request EXCEPT ![s] = NoRequest]
    /\ UNCHANGED <<audio_filepath, image_filepath, stt_text, model_raw_output, llm_error,
                   tts_error, result, audio_out, final_mp3, alone>>

\* Path(tts_path).exists()
CheckExists(s) ==
    /\ pc[s] = "tts_exists"
    /\ pc' = [pc EXCEPT ![s] = IF final_mp3.exists THEN "tts_unlink" ELSE "tts_call"]
    /\ UNCHANGED <<locals, final_mp3, alone>>

\* the except branch without the note
TtsExcept_dropsNote(s, e) ==
    /\ tts_path' = [tts_path EXCEPT ![s] = PyNone]
    /\ UNCHANGED treatment
    /\ tts_error' = [tts_error EXCEPT ![s] = PyStrV(e)]
    /\ pc' = [pc EXCEPT ![s] = "return"]

\* the except branch without tts_path = None
TtsExcept_keepsPath(s, e) ==
    /\ UNCHANGED tts_path
    /\ treatment' = [treatment EXCEPT ![s] =
          PyStrV(PyStr(treatment[s]) \o Chars("\n\n[TTS generation failed: ") \o e \o Chars("]"))]
    /\ tts_error' = [tts_error EXCEPT ![s] = PyStrV(e)]
    /\ pc' = [pc EXCEPT ![s] = "return"]

\* the except branch of step 7: no audio, the error appended to the treatment
TtsExcept(s, e) ==
    /\ tts_path' = [tts_path EXCEPT ![s] = PyNone]
    /\ treatment' = [treatment EXCEPT ![s] =
          PyStrV(PyStr(treatment[s]) \o Chars("\n\n[TTS generation failed: ") \o e \o Chars("]"))]
    /\ tts_error' = [tts_error EXCEPT ![s] = PyStrV(e)]
    /\ pc' = [pc EXCEPT ![s] = "return"]

FileNotFound == Chars("[Errno 2] No such file or directory: 'final.mp3'")

\* What Path(tts_path).unlink() can do: remove the file, or raise (the file
\* is gone, or the system refuses).
UnlinkOutcomes(file, dom) ==
    IF file.exists
    THEN {[ok |-> TRUE, err |-> <<>>]} \cup {[ok |-> FALSE, err |-> e] : e \in dom.errors}
    ELSE {[ok |-> FALSE, err |-> FileNotFound]}

Unlink(s, dom) ==
    /\ pc[s] = "tts_unlink"
    /\ \E o \in UnlinkOutcomes(final_mp3, dom) :
          IF o.ok
          THEN /\ final_mp3' = NoFile
               /\ pc' = [pc EXCEPT ![s] = "tts_call"]
               /\ UNCHANGED <<tts_path, treatment, tts_error>>
          ELSE /\ TtsExcept(s, o.err)
               /\ UNCHANGED final_mp3
    /\ UNCHANGED <<audio_filepath, image_filepath, stt_text, request, model_raw_output,
                   llm_error, parsed, analysis, tts_text, result, audio_out, alone>>

\* The file after text_to_speech_with_gtts(input_text, "final.mp3"): the
\* audio of input_text when it returns, the file as it was when it raises.
text_to_speech_with_gtts(input_text, file, ok) ==
    IF ok THEN AudioOf(input_text) ELSE file

TtsOutcomes(dom) ==
    {[ok |-> TRUE, err |-> <<>>]} \cup {[ok |-> FALSE, err |-> e] : e \in dom.errors}

Synthesize(s, dom) ==
    /\ pc[s] = "tts_call"
    /\ \E o \in TtsOutcomes(dom) :
          /\ final_mp3' = text_to_speech_with_gtts(tts_text[s], final_mp3, o.ok)
          /\ IF o.ok
             THEN /\ pc' = [pc EXCEPT ![s] = "return"]
                  /\ UNCHANGED <<tts_path, treatment, tts_error>>
             ELSE TtsExcept(s, o.err)
    /\ UNCHANGED <<audio_filepath, image_filepath, stt_text, request, model_raw_output,
                   llm_error, parsed, analysis, tts_text, result, audio_out, alone>>

\* step 8: the four values go to the outputs; the audio output loads the
\* file at the returned path
Return(s) ==
    /\ pc[s] = "return"
    /\ result' = [result EXCEPT ![s] =
          <<PyStrV(stt_text[s]), analysis[s], treatment[s], tts_path[s]>>]
    /\ audio_out' = [audio_out EXCEPT ![s] =
          IF tts_path[s] = PyNone THEN NotShown ELSE [shown |-> TRUE, file |-> final_mp3]]
    /\ pc' = [pc EXCEPT ![s] = "done"]
    /\ UNCHANGED <<audio_filepath, image_filepath, stt_text, request, model_raw_output,
                   llm_error, parsed, analysis, treatment, tts_text, tts_path, tts_error,
                   final_mp3, alone>>

(***************************************************************************)
(* The inputs a submission and its collaborators can bring                 *)
(***************************************************************************)
\* str(e) of an exception: plain, and with the characters JSON escapes
Errors == {Chars("Connection error."),
           Chars("400 {\"error\": \"bad\\key\"}\n'x'")}

ImageFiles == {<<>>, <<255, 216, 255, 224>>}

ModelReplies ==
    {Chars("{\"analysis\": \"With what I see, acne.\", \"treatment\": \"Wash gently.\"}"),
     Chars("Sure: {\"analysis\":\"a\",\"treatment\":\"t\"} ok"),
     Chars("{\"analysis\":\"only this\"}"),
     Chars("{\"analysis\":null,\"treatment\":[1]}"),
     Chars(" I cannot help. \n"),
     Chars("[]"),
     Chars("null"),
     Chars("\"rest\""),
     Chars("7"),
     <<>>}

FullDomain ==
    [audio       |-> {PyNone, PyStrV(Chars("voice.wav"))},
     image       |-> {PyNone, PyStrV(Chars("skin.jpg"))},
     transcripts |-> {PyNone, PyStrV(<<>>), PyStrV(Chars("my skin itches"))},
     errors      |-> Errors,
     llm_errors  |-> Errors,
     files       |-> ImageFiles,
     replies     |-> ModelReplies]

\* sessions at once: enough inputs to tell their audio apart, the model
\* always answering
SmallDomain ==
    [audio       |-> {PyNone},
     image       |-> {PyNone},
     transcripts |-> {},
     errors      |-> {Chars("Connection error.")},
     llm_errors  |-> {},
     files       |-> {},
     replies     |-> {Chars("{\"analysis\":\"a\",\"treatment\":\"t\"}"),
                      Chars("{\"analysis\":\"b\",\"treatment\":\"u\"}")}]

Init ==
    /\ pc = [s \in Sessions |-> "idle"]
    /\ audio_filepath = [s \in Sessions |-> PyNone]
    /\ image_filepath = [s \in Sessions |-> PyNone]
    /\ stt_text = [s \in Sessions |-> <<>>]
    /\ request = [s \in Sessions |-> NoRequest]
    /\ model_raw_output = [s \in Sessions |-> <<>>]
    /\ llm_error = [s \in Sessions |-> PyNone]
    /\ parsed = [s \in Sessions |-> PyNone]
    /\ analysis = [s \in Sessions |-> PyNone]
    /\ treatment = [s \in Sessions |-> PyNone]
    /\ tts_text = [s \in Sessions |-> <<>>]
    /\ tts_path = [s \in Sessions |-> PyNone]
    /\ tts_error = [s \in Sessions |-> PyNone]
    /\ result = [s \in Sessions |-> NoResult]
    /\ audio_out = [s \in Sessions |-> NotShown]
    /\ final_mp3 \in {NoFile, AudioOf(Chars("left by an earlier run"))}
    /\ alone = [s \in Sessions |-> TRUE]

\* Submissions one at a time: one session, each submission after the last.
Next ==
    \E s \in {1} :
        \/ Submit(s, FullDomain)
        \/ Transcribe(s, FullDomain)
        \/ Analyze(s, FullDomain)
        \/ Normalize(s)
        \/ CheckExists(s)
        \/ Unlink(s, FullDomain)
        \/ Synthesize(s, FullDomain)
        \/ Return(s)

Spec == Init /\ [][Next]_vars

\* Sessions submitting concurrently, nothing keeping them apart.
NextConc ==
    \E s \in Sessions :
        \/ Submit(s, SmallDomain)
        \/ Transcribe(s, SmallDomain)
        \/ Analyze(s, SmallDomain)
        \/ Normalize(s)
        \/ CheckExists(s)
        \/ Unlink(s, SmallDomain)
        \/ Synthesize(s, SmallDomain)
        \/ Return(s)

SpecConc == Init /\ [][NextConc]_vars

(***************************************************************************)
(* The normalizer alone: safe_parse_json and the two .get on a reply       *)
(***************************************************************************)
MaxMembers == 2

InputLen == 5000

\* members of a JSON object, as a model may write them
Members ==
    {Chars("\"analysis\":\"a\""),
     Chars("\"treatment\":\"t\""),
     Chars("\"analysis\": null"),
     Chars("\"treatment\":[1, \"x\"]"),
     Chars("\"Analysis\":\"c\""),
     Chars("\"TREATMENT\":\"u\""),
     Chars("\"note\":{\"analysis\":\"n\"}")}

MemberLists == UNION {[1..n -> Members] : n \in 0..MaxMembers}

ObjectText(members) == Chars("{") \o Join(Chars(","), members) \o Chars("}")

\* what a model may put around the object
Wrappings ==
    {<< <<>>, <<>> >>,
     << Chars(" "), Chars("\n") >>,
     << Chars("\f"), <<>> >>,
     << Chars("Sure: "), <<>> >>,
     << <<>>, Chars(" ok") >>,
     << Chars("x {e} "), <<>> >>,
     << <<>>, Chars(" {ignored}") >>,
     << Chars("prefix "), Chars(" suffix {ignored}") >>,
     << Chars("}"), Chars("{") >>}

WrappedTexts == {w[1] \o ObjectText(m) \o w[2] : w \in Wrappings, m \in MemberLists}

\* texts that are no object: empty, prose, unbalanced braces, other JSON
OtherTexts ==
    {<<>>, Chars(" "), Chars("no braces at all"), Chars(" I cannot help. \n"),
     Chars("{"), Chars("}"), Chars("}{"), Chars("{{}"), Chars("{}}"), Chars("} {"),
     Chars("{\"analysis\":\"a\""), Chars("\"analysis\":\"a\"}"),
     Chars("{\"analysis\":\"a\",}"), Chars("{'analysis':'a'}"), Chars("{\"analysis\"}"),
     Chars("{\"analysis\":\"a\\\"}"), Chars("{\"analysis\":\"a\\\\\"}"),
     Chars("[]"), Chars("[{\"analysis\":\"a\"}]"), Chars("[1,2"),
     Chars("null"), Chars("true"), Chars("false"), Chars("0"), Chars("-12"), Chars("NaN"),
     Chars("\"rest\""), Chars("\"{}\""), Chars(" \"{\\\"analysis\\\":1}\" "),
     Chars("{\"analysis\":true,\"treatment\":{}}"),
     Chars("{\"analysis\":\"only this\"}")}

\* values of the two fields: empty, plain, with the characters JSON escapes,
\* with whitespace at the ends, with braces, longer than the cap
FieldStrings ==
    {<<>>, Chars("a"), Chars("say \"x\""), Chars("back\\slash\\"), Chars(" two\nlines\t"),
     Chars("{\"analysis\":\"b\"}"), Repeat("a", TreatmentCap + 1)}

\* the texts that are exactly the object of the two keys
ExactTexts == {JsonDumpsReply(a, t) : a \in FieldStrings, t \in FieldStrings}

\* Long texts: whitespace, a core of the kind named, whitespace.
PadSizes ==
    {0, 1, (InputLen - TreatmentCap) \div 2, (InputLen - TreatmentCap) \div 2 + 1,
     InputLen - TreatmentCap, InputLen}

LongCore(kind, n) ==
    CASE kind = "open" /\ n >= 1     -> Chars("{") \o Repeat("x", n - 1)
      [] kind = "braces" /\ n >= 2   -> Chars("{") \o Repeat("x", n - 2) \o Chars("}")
      [] kind = "reversed" /\ n >= 2 -> Chars("}") \o Repeat("x", n - 2) \o Chars("{")
      [] kind = "object" /\ n >= 16  -> Chars("{\"analysis\":\"a\"}") \o Repeat("x", n - 16)
      [] OTHER -> Repeat("x", n)

LongTexts ==
    {Repeat(pad, lead) \o LongCore(kind, InputLen - lead - trail) \o Repeat(pad, trail) :
        <<lead, trail>> \in {q \in PadSizes \X PadSizes : q[1] + q[2] <= InputLen},
        pad \in {" ", "\n"},
        kind \in {"prose", "open", "braces", "reversed", "object"}}

NormTexts == WrappedTexts \cup OtherTexts \cup ExactTexts \cup LongTexts

\* Session 1 has submitted no audio and no image and holds the model's reply.
InitNorm ==
    /\ pc = [s \in Sessions |-> IF s = 1 THEN "parse" ELSE "idle"]
    /\ audio_filepath = [s \in Sessions |-> PyNone]
    /\ image_filepath = [s \in Sessions |-> PyNone]
    /\ stt_text = [s \in Sessions |-> <<>>]
    /\ request = [s \in Sessions |->
          IF s = 1
          THEN analyze_image_with_query(AssembledPrompt(<<>>, PyNone), MODEL_NAME, PyNone)
          ELSE NoRequest]
    /\ \E reply \in NormTexts :
          model_raw_output = [s \in Sessions |-> IF s = 1 THEN reply ELSE <<>>]
    /\ llm_error = [s \in Sessions |-> PyNone]
    /\ parsed = [s \in Sessions |-> PyNone]
    /\ analysis = [s \in Sessions |-> PyNone]
    /\ treatment = [s \in Sessions |-> PyNone]
    /\ tts_text = [s \in Sessions |-> <<>>]
    /\ tts_path = [s \in Sessions |-> PyNone]
    /\ tts_error = [s \in Sessions |-> PyNone]
    /\ result = [s \in Sessions |-> NoResult]
    /\ audio_out = [s \in Sessions |-> NotShown]
    /\ final_mp3 = NoFile
    /\ alone = [s \in Sessions |-> TRUE]

NextNorm == Normalize(1)

SpecNorm == InitNorm /\ [][NextNorm]_vars

(***************************************************************************)
(* Claims about the normalizer, under SpecNorm                             *)
(***************************************************************************)
Normalized(s) == pc[s] \in {"tts_exists", "raised"}

\* the third return statement of safe_parse_json is the one reached
FellBack(text) ==
    /\ ~JsonLoads(text).ok
    /\ ~(BraceCandidate(text).tried /\ JsonLoads(BraceCandidate(text).text).ok)

\* C1: for every reply text, normalization raises nothing and yields an
\* analysis and a treatment that are both strings.
C1_Totality ==
    \A s \in Sessions :
        Normalized(s) => pc[s] # "raised" /\ IsStr(analysis[s]) /\ IsStr(treatment[s])

ExactReplies == {<<a, t, JsonDumpsReply(a, t)>> : a \in FieldStrings, t \in FieldStrings}

\* C3: a reply that is exactly the object {"analysis": A, "treatment": T}
\* is decoded whole and comes back as (A, T), nothing defaulted, trimmed or cut.
C3_ExactReplyPreserved ==
    \A s \in Sessions : \A e \in ExactReplies :
        (Normalized(s) /\ model_raw_output[s] = e[3]) =>
            /\ pc[s] = "tts_exists"
            /\ JsonLoads(model_raw_output[s]).ok
            /\ analysis[s] = PyStrV(e[1])
            /\ treatment[s] = PyStrV(e[2])

C3_Witness ==
    \E s \in Sessions :
        /\ pc[s] = "tts_exists"
        /\ model_raw_output[s] =
              JsonDumpsReply(Chars(" two\nlines\t"), Repeat("a", TreatmentCap + 1))
        /\ Len(treatment[s].s) = TreatmentCap + 1

\* the number of whitespace characters a text begins with, and ends with
LeadingWs(text) ==
    CHOOSE k \in 0..Len(text) :
        /\ (k = Len(text) \/ text[k + 1] \notin StripWs)
        /\ \A i \in 1..k : text[i] \in StripWs

TrailingWs(text) ==
    CHOOSE k \in 0..Len(text) :
        /\ (k = Len(text) \/ text[Len(text) - k] \notin StripWs)
        /\ \A i \in (Len(text) - k + 1)..Len(text) : text[i] \in StripWs

\* C4 (as stated): a reply of length InputLen that yields no JSON gives the
\* fallback analysis and a treatment of length exactly TreatmentCap.
C4_CapExactly ==
    \A s \in Sessions :
        (Normalized(s) /\ Len(model_raw_output[s]) = InputLen /\ FellBack(model_raw_output[s])) =>
            /\ analysis[s] = PyStrV(FallbackAnalysis)
            /\ IsStr(treatment[s])
            /\ Len(treatment[s].s) = TreatmentCap

\* C4 (amended): a reply that yields no JSON gives the fallback analysis and,
\* as treatment, the reply without its leading and trailing whitespace, cut
\* to TreatmentCap characters: exactly TreatmentCap of them when that many
\* are left after the trimming, and all that are left otherwise.
C4_FallbackCap ==
    \A s \in Sessions :
        (Normalized(s) /\ FellBack(model_raw_output[s])) =>
            LET text == model_raw_output[s]
                lead == LeadingWs(text)
                left == IF lead = Len(text) THEN 0 ELSE Len(text) - lead - TrailingWs(text)
            IN  /\ pc[s] = "tts_exists"
                /\ analysis[s] = PyStrV(FallbackAnalysis)
                /\ treatment[s] = PyStrV(SubSeq(text, lead + 1, lead + Min(left, TreatmentCap)))
                /\ Len(treatment[s].s) = IF left >= TreatmentCap THEN TreatmentCap ELSE left

C4_Witness ==
    \E s \in Sessions :
        /\ pc[s] = "tts_exists"
        /\ Len(model_raw_output[s]) = InputLen
        /\ FellBack(model_raw_output[s])
        /\ LeadingWs(model_raw_output[s]) > 0
        /\ TrailingWs(model_raw_output[s]) > 0
        /\ Len(treatment[s].s) = TreatmentCap

\* the value under key in a dict's items, or the default
FieldOr(items, key, default) ==
    IF \E p \in 1..Len(items) : items[p].k = key
    THEN items[CHOOSE p \in 1..Len(items) : items[p].k = key].v
    ELSE PyStrV(default)

BraceExample == Chars("prefix {\"analysis\":\"a\",\"treatment\":\"t\"} suffix {ignored}")

C6_MissingKeyDefaults ==
    \A s \in Sessions :
        pc[s] = "tts_exists" =>
            /\ analysis[s] = FieldOr(parsed[s].items, Chars("analysis"), Chars("Analysis not available."))
            /\ treatment[s] = FieldOr(parsed[s].items, Chars("treatment"), Chars("Treatment not available."))
            /\ model_raw_output[s] = Chars("{\"analysis\":\"only this\"}") =>
                  /\ analysis[s] = PyStrV(Chars("only this"))
                  /\ treatment[s] = PyStrV(Chars("Treatment not available."))
            /\ model_raw_output[s] = Chars("{\"Analysis\":\"c\",\"TREATMENT\":\"u\"}") =>
                  /\ analysis[s] = PyStrV(Chars("Analysis not available."))
                  /\ treatment[s] = PyStrV(Chars("Treatment not available."))
            /\ model_raw_output[s] = Chars("{\"note\":{\"analysis\":\"n\"},\"treatment\":\"t\"}") =>
                  /\ analysis[s] = PyStrV(Chars("Analysis not available."))
                  /\ treatment[s] = PyStrV(Chars("t"))

C6_Witness ==
    \E s \in Sessions :
        /\ pc[s] = "tts_exists"
        /\ model_raw_output[s] = Chars("{\"analysis\":\"only this\"}")
        /\ treatment[s] = PyStrV(Chars("Treatment not available."))

(***************************************************************************)
(* Claims about process_inputs, submissions one at a time, under Spec      *)
(***************************************************************************)
\* C2: whatever each stage does, process_inputs returns its four values and
\* no exception leaves it.
C2_NoStageFatal ==
    \A s \in Sessions :
        /\ pc[s] # "raised"
        /\ pc[s] = "done" => Len(result[s]) = 4

EndsWith(text, suffix) ==
    /\ Len(text) >= Len(suffix)
    /\ SubSeq(text, Len(text) - Len(suffix) + 1, Len(text)) = suffix

Contains(text, part) ==
    \E i \in 1..(Len(text) - Len(part) + 1) : SubSeq(text, i, i + Len(part) - 1) = part

\* C7: the request of a submission without an image carries the prompt,
\* ending with the notice "No image provided.", and no image part; the
\* request of a submission with an image carries an image part and a prompt
\* without the notice.
C7_PromptOnly ==
    \A s \in Sessions :
        request[s].sent =>
            LET parts  == request[s].content
                images == {p \in 1..Len(parts) : parts[p].type = "image_url"}
                texts  == {p \in 1..Len(parts) : parts[p].type = "text"}
            IN  /\ texts # {}
                /\ IF PyTruthy(image_filepath[s])
                   THEN /\ images # {}
                        /\ \A p \in texts : ~Contains(parts[p].value, Chars("No image provided."))
                   ELSE /\ images = {}
                        /\ \A p \in texts : EndsWith(parts[p].value, Chars("No image provided."))

AfterNormalize == {"tts_exists", "tts_unlink", "tts_call", "return", "done"}

TtsNote(e) == Chars("\n\n[TTS generation failed: ") \o e \o Chars("]")

\* C8: the text to speak is the analysis, one space, the treatment, as the
\* normalizer gave them.  A submission whose unlink or synthesis raised
\* returns no audio path and the treatment followed by the note with the
\* error; one whose synthesis returned returns "final.mp3" and the
\* treatment as it was.  Transcript and analysis are returned unchanged.
C8_TtsOutcome ==
    \A s \in Sessions :
        pc[s] \in AfterNormalize =>
            LET a == FieldOr(parsed[s].items, Chars("analysis"), Chars("Analysis not available."))
                t == FieldOr(parsed[s].items, Chars("treatment"), Chars("Treatment not available."))
            IN  /\ tts_text[s] = PyStr(a) \o <<" ">> \o PyStr(t)
                /\ pc[s] = "done" =>
                      /\ result[s][1] = PyStrV(stt_text[s])
                      /\ result[s][2] = a
                      /\ IF tts_error[s] # PyNone
                         THEN /\ result[s][3] = PyStrV(PyStr(t) \o TtsNote(tts_error[s].s))
                              /\ result[s][4] = PyNone
                              /\ ~audio_out[s].shown
                         ELSE /\ result[s][3] = t
                              /\ result[s][4] = PyStrV(Chars("final.mp3"))

C8_Witness ==
    \E s \in Sessions :
        /\ pc[s] = "done"
        /\ tts_error[s] = PyStrV(Chars("Connection error."))
        /\ model_raw_output[s] = Chars("{\"analysis\":null,\"treatment\":[1]}")
        /\ result[s][3] = PyStrV(Chars("[1]\n\n[TTS generation failed: Connection error.]"))
        /\ result[s][4] = PyNone

\* C9: when the image branch or the API call raised, the text handed to the
\* normalizer is JSON for an object, decoded whole; the analysis is
\* "Image processing error" with an image and "Image not provided or
\* unclear" without, the treatment ends with the error; nothing raises and
\* the speech-synthesis block is entered.
C9_LlmFailureRecovered ==
    \A s \in Sessions :
        (llm_error[s] # PyNone /\ pc[s] \notin {"idle", "stt", "llm"}) =>
            LET e == llm_error[s].s
            IN  /\ JsonLoads(model_raw_output[s]).ok
                /\ IsDict(JsonLoads(model_raw_output[s]).val)
                /\ pc[s] # "raised"
                /\ pc[s] \in AfterNormalize =>
                      /\ parsed[s] = JsonLoads(model_raw_output[s]).val
                      /\ analysis[s] =
                            (IF PyTruthy(image_filepath[s])
                             THEN PyStrV(Chars("Image processing error"))
                             ELSE PyStrV(Chars("Image not provided or unclear")))
                      /\ IsStr(treatment[s])
                      /\ FieldOr(parsed[s].items, Chars("treatment"), <<>>) =
                            (IF PyTruthy(image_filepath[s])
                             THEN PyStrV(Chars("Failed to analyze image due to error: ") \o e)
                             ELSE PyStrV(Chars("No image was provided. If you can, please upload a clear photo. Error detail: ") \o e))
                      /\ tts_text[s] = analysis[s].s \o <<" ">>
                            \o FieldOr(parsed[s].items, Chars("treatment"), <<>>).s
                /\ pc[s] = "done" => (tts_error[s] = PyNone <=> result[s][4] = TtsPath)

C9_Witness ==
    \E s \in Sessions :
        /\ pc[s] = "done"
        /\ PyTruthy(image_filepath[s])
        /\ llm_error[s] = PyStrV(Chars("400 {\"error\": \"bad\\key\"}\n'x'"))
        /\ analysis[s] = PyStrV(Chars("Image processing error"))
        /\ result[s][4] = TtsPath

(***************************************************************************)
(* The claim about the shared file, under SpecConc                         *)
(***************************************************************************)
\* C10: a submission that ran with no other in flight and returns
\* "final.mp3" finds there the audio of its own analysis and treatment; the
\* file it found before was removed before the synthesis.
C10_OneAtATime ==
    \A s \in Sessions :
        alone[s] =>
            /\ pc[s] = "tts_call" => ~final_mp3.exists
            /\ (pc[s] = "done" /\ result[s][4] # PyNone) =>
                  /\ audio_out[s].shown
                  /\ audio_out[s].file.exists
                  /\ audio_out[s].file.speech = PyStr(result[s][2]) \o <<" ">> \o PyStr(result[s][3])

\* two submissions in flight: one returns "final.mp3" while the file holds
\* the audio of the other
C10_Witness ==
    \E s \in Sessions, u \in Sessions :
        /\ s # u
        /\ pc[s] = "done"
        /\ result[s][4] = TtsPath
        /\ audio_out[s].file.exists
        /\ audio_out[s].file.speech = tts_text[u]
        /\ audio_out[s].file.speech # tts_text[s]

\* two submissions in flight: one returns "final.mp3" after the other
\* has removed the file
C10_Deleted ==
    \E s \in Sessions :
        /\ pc[s] = "done"
        /\ result[s][4] = TtsPath
        /\ audio_out[s].shown
        /\ ~audio_out[s].file.exists

=============================================================================
